---- MODULE Spec2Model ----
(***************************************************************************)
(* Museum book prototype: the page selector of App (app.py) driven by the  *)
(* switch readings the serial receiver publishes, and the playback streams *)
(* the selector starts and stops.                                          *)
(*                                                                         *)
(* Time is counted in milliseconds.  Python's None is the empty sequence   *)
(* for optional numbers, sets and lists, and the string "None" for the     *)
(* optional page identifier.                                               *)
(***************************************************************************)
EXTENDS Integers, Sequences, FiniteSets, TLC

(* ------------------------------------------------------------------ *)
(* Program constants                                                  *)
(* ------------------------------------------------------------------ *)

\* range(1, 6): the five instrumented pages
NumPages == 5

Pages == 1..NumPages

\* elapsed > 30.0 (seconds), in milliseconds
FLOATING_LIMIT == 30000

\* keys of VIDEO_SOURCES
VIDEO_SOURCES == {"front_cover", "page1", "page2", "page3", "page4", "back_cover"}

NoPage == "None"

\* f"page{chosen}"
PageName(k) == <<"page1", "page2", "page3", "page4", "page5">>[k]

None == <<>>

Some(v) == <<v>>

(* ------------------------------------------------------------------ *)
(* Bounds of the model                                                *)
(* ------------------------------------------------------------------ *)

\* iterations of the main loop on the readings of the scenario, before one
\* more iteration on any reading at all
MaxTicks == 1

\* iterations of the main loop explored on the fault readings alone
MaxFaultTicks == 5

\* the clock advances by one of these between two iterations: a millisecond,
\* exactly the floating limit, a millisecond more than the limit
Deltas == {1, FLOATING_LIMIT, FLOATING_LIMIT + 1}

(* ------------------------------------------------------------------ *)
(* Switch readings                                                    *)
(* ------------------------------------------------------------------ *)

\* the ten keys page{i}_open / page{i}_close of SwitchStates.states
Keys == Pages \X {"open", "close"}

\* a complete reading as SwitchStates publishes it
Readings == [Keys -> BOOLEAN]

\* the reading in which page i is closed ("C"), open ("O"), floating ("F":
\* neither switch) or invalid ("X": both switches) as pat[i] says
Reading(pat) ==
    [k \in Keys |-> IF k[2] = "open" THEN pat[k[1]] \in {"O", "X"}
                                     ELSE pat[k[1]] \in {"C", "X"}]

\* readings of a book that is closed, opened, has floating pages 1 and 2 or
\* page 1 alone, or a contactor fault on page 3 or on page 1
FaultReadings ==
    {Reading(<<"C", "C", "C", "C", "C">>),
     Reading(<<"F", "F", "C", "C", "C">>),
     Reading(<<"F", "C", "C", "C", "C">>),
     Reading(<<"C", "C", "X", "C", "C">>),
     Reading(<<"X", "C", "C", "C", "C">>)}

\* the fault readings, and a book opened up to page 2 or to the end
ScenarioReadings ==
    FaultReadings \cup
    {Reading(<<"O", "O", "C", "C", "C">>),
     Reading(<<"O", "O", "O", "O", "O">>)}

\* dict.get(key, False)
Get(inputs, key) == IF key \in DOMAIN inputs THEN inputs[key] ELSE FALSE

\* page_states: the (OPEN, CLOSED) pair of every page
PageStates(inputs) ==
    [i \in Pages |-> [open |-> Get(inputs, <<i, "open">>),
                      close |-> Get(inputs, <<i, "close">>)]]

Invalid(ps, i) == ps[i].open /\ ps[i].close

Floating(ps, i) == ~ps[i].open /\ ~ps[i].close

OpenOnly(ps, i) == ps[i].open /\ ~ps[i].close

ClosedOnly(ps, i) == ps[i].close /\ ~ps[i].open

\* floating_now
FloatingNow(ps) == {i \in Pages : Floating(ps, i)}

SetMax(S) == CHOOSE m \in S : \A x \in S : x <= m

SetMin(S) == CHOOSE m \in S : \A x \in S : m <= x

RECURSIVE Sorted(_)
\* sorted(set of page indices)
Sorted(S) == IF S = {} THEN <<>> ELSE <<SetMin(S)>> \o Sorted(S \ {SetMin(S)})

(* ------------------------------------------------------------------ *)
(* Playback streams, as far as the selector drives them                *)
(* ------------------------------------------------------------------ *)

\* VideoStream.close, and the field defaults of a new VideoStream
ClosedStream ==
    [accumulator |-> 0, elapsed_time |-> 0, frame_index |-> 0,
     finished |-> TRUE, last_surface |-> None]

\* VideoStream.reset that returned: frame 0 is loaded
StartedStream ==
    [accumulator |-> 0, elapsed_time |-> 0, frame_index |-> 0,
     finished |-> FALSE, last_surface |-> Some(0)]

\* VideoStream.reset that raised out of _load_frame: the counters are
\* reset and no frame is loaded
HalfStartedStream ==
    [accumulator |-> 0, elapsed_time |-> 0, frame_index |-> 0,
     finished |-> FALSE, last_surface |-> None]

\* how a call of VideoStream.reset can end, decided by the files on disk
ResetOutcomes == {"ok", "FileNotFoundError", "ErrorInEnsureCache", "ErrorInLoadFrame"}

VARIABLES
    app,          \* the App object: the fields one iteration reads and writes
    inputs,       \* App.inputs: the reading published last
    now,          \* time.time()
    ticks,        \* iterations of the main loop so far
    page_states,  \* page_states of the last iteration
    vs,           \* one VideoStream object
    disk,         \* the source movie and the cache directory of that stream
    ops,          \* the last call on that stream: what it did and returned
    rx,           \* SwitchStates and the two threads that share its dictionary
    pc            \* where App.run is

\* the selector and its readings
app_vars == <<app, inputs, now, ticks, page_states, rx, pc>>

\* one stream and its files
stream_vars == <<vs, disk, ops>>

vars == <<app, inputs, now, ticks, page_states, vs, disk, ops, rx, pc>>

\* App.__init__ with the source files in `missing` absent
NewApp(missing) ==
    [current_page |-> NoPage,
     floating_start_time |-> None,
     floating_pages |-> None,
     suspected_faulty |-> None,
     reported_faults |-> {},
     videos |-> VIDEO_SOURCES \ missing,
     streams |-> [p \in VIDEO_SOURCES |-> ClosedStream],
     video_times |-> [p \in VIDEO_SOURCES \ missing |-> 0],
     video_load_failure |-> (missing # {}),
     start_error |-> NoPage,
     errors |-> {},
     changes |-> <<>>]

\* logger.error of a fault signature
LogError(a, kind, sig) ==
    [a EXCEPT !.errors = @ \cup {[kind |-> kind, pages |-> sig]}]

\* ClosePrevious that closes nothing
KeepPrevious(a) == a

\* previous stream is closed when the page changes
ClosePrevious(a) ==
    IF a.current_page # NoPage /\ a.current_page \in a.videos
    THEN [a EXCEPT !.streams[a.current_page] = ClosedStream]
    ELSE a

\* self.video_times[value] = 0.0, then the try/except around
\* self.videos[value].reset(); start_error is the page logger.exception names
StartStream(a, value, outcome) ==
    CASE outcome = "ok" ->
           [a EXCEPT !.video_times[value] = 0,
                     !.streams[value] = StartedStream,
                     !.current_page = value]
      [] outcome = "FileNotFoundError" ->
           [a EXCEPT !.video_times[value] = 0,
                     !.video_load_failure = TRUE,
                     !.start_error = value,
                     !.streams[value] = ClosedStream,
                     !.videos = @ \ {value},
                     !.current_page = NoPage]
      [] outcome = "ErrorInEnsureCache" ->
           [a EXCEPT !.video_times[value] = 0,
                     !.video_load_failure = TRUE,
                     !.start_error = value,
                     !.current_page = NoPage]
      [] outcome = "ErrorInLoadFrame" ->
           [a EXCEPT !.video_times[value] = 0,
                     !.video_load_failure = TRUE,
                     !.start_error = value,
                     !.streams[value] = HalfStartedStream,
                     !.current_page = NoPage]

\* PAGE_LABELS.get(page, page)
PageLabel(page) ==
    CASE page = "front_cover" -> "page1"
      [] page = "page1" -> "page2"
      [] page = "page2" -> "page3"
      [] page = "page3" -> "page4"
      [] page = "page4" -> "page5"
      [] page = "back_cover" -> "page6"
      [] OTHER -> page

\* logger.info("Current page changed from %s to %s", ...) at the end of the
\* setter: `previous` was the page, b has the new one
LogChange(previous, b) ==
    [b EXCEPT !.changes = Append(@, <<PageLabel(previous), PageLabel(b.current_page)>>)]

\* App.current_page setter
SetCurrentPage(a, value, outcome) ==
    IF value = a.current_page THEN a
    ELSE LET b == ClosePrevious(a)
         IN  LogChange(a.current_page,
                       IF value # NoPage /\ value \in b.videos
                       THEN StartStream(b, value, outcome)
                       ELSE [b EXCEPT !.current_page = value])

\* the branch of App._check_invalid_state for a page that is both OPEN and CLOSED
ReportInvalid(a, i, outcome) ==
    LET b == SetCurrentPage(
                 [a EXCEPT !.floating_start_time = None,
                           !.floating_pages = None,
                           !.suspected_faulty = Some(<<i>>)],
                 NoPage, outcome)
    IN  IF {i} \notin b.reported_faults
        THEN LogError([b EXCEPT !.reported_faults = @ \cup {{i}}], "contactor", {i})
        ELSE b

RECURSIVE CheckInvalidFrom(_, _, _, _)
\* the loop of App._check_invalid_state from page i on
CheckInvalidFrom(a, ps, i, outcome) ==
    IF i > NumPages THEN a
    ELSE IF Invalid(ps, i)
         THEN ReportInvalid(a, i, outcome)
         ELSE CheckInvalidFrom([a EXCEPT !.reported_faults = @ \ {{i}}],
                               ps, i + 1, outcome)

\* App._check_invalid_state
CheckInvalidState(a, ps, outcome) == CheckInvalidFrom(a, ps, 1, outcome)

\* TrackFloating that starts the timer anew on every tick
TrackFloatingRestarts(a, floating_now, t) ==
    [a EXCEPT !.floating_start_time = Some(t),
              !.floating_pages = Some(floating_now)]

\* the floating branch of App._handle_input up to the forced current_page = None
TrackFloating(a, floating_now, t) ==
    IF a.floating_start_time = None \/ a.floating_pages # Some(floating_now)
    THEN [a EXCEPT !.floating_start_time = Some(t),
                   !.floating_pages = Some(floating_now)]
    ELSE LET elapsed == t - a.floating_start_time[1]
             fault_key == a.floating_pages[1]
         IN  IF elapsed > FLOATING_LIMIT /\ fault_key \notin a.reported_faults
             THEN LogError([a EXCEPT !.suspected_faulty = Some(Sorted(fault_key)),
                                     !.reported_faults = @ \cup {fault_key}],
                           "floating", fault_key)
             ELSE a

\* the else branch: no page is floating
ClearFloating(a) ==
    LET purged == IF a.floating_pages # None /\ a.floating_pages[1] # {}
                  THEN a.reported_faults \ {a.floating_pages[1]}
                  ELSE a.reported_faults
    IN  [a EXCEPT !.reported_faults = purged,
                  !.floating_start_time = None,
                  !.floating_pages = None,
                  !.suspected_faulty = None]

\* open_pages
OpenPages(ps) == {i \in Pages : OpenOnly(ps, i)}

\* SelectPage with the two covers exchanged
SelectPageSwapped(ps) ==
    IF \A i \in Pages : ClosedOnly(ps, i) THEN "back_cover"
    ELSE IF \A i \in Pages : OpenOnly(ps, i) THEN "front_cover"
    ELSE IF OpenOnly(ps, NumPages) THEN "back_cover"
    ELSE IF OpenPages(ps) # {} THEN PageName(SetMax(OpenPages(ps)))
    ELSE NoPage

\* SelectPage without the special case of page 5
SelectPageNoPage5(ps) ==
    IF \A i \in Pages : ClosedOnly(ps, i) THEN "front_cover"
    ELSE IF \A i \in Pages : OpenOnly(ps, i) THEN "back_cover"
    ELSE IF OpenPages(ps) # {} THEN PageName(SetMax(OpenPages(ps)))
    ELSE NoPage

\* SelectPage choosing the lowest open page
SelectPageLowest(ps) ==
    IF \A i \in Pages : ClosedOnly(ps, i) THEN "front_cover"
    ELSE IF \A i \in Pages : OpenOnly(ps, i) THEN "back_cover"
    ELSE IF OpenOnly(ps, NumPages) THEN "back_cover"
    ELSE IF OpenPages(ps) # {} THEN PageName(SetMin(OpenPages(ps)))
    ELSE NoPage

\* SelectPage that names the highest open page whichever it is
SelectPageByIndex(ps) ==
    IF \A i \in Pages : ClosedOnly(ps, i) THEN "front_cover"
    ELSE IF OpenPages(ps) # {} THEN PageName(SetMax(OpenPages(ps)))
    ELSE NoPage

\* the page the selection part of App._handle_input hands to the setter
SelectPage(ps) ==
    IF \A i \in Pages : ClosedOnly(ps, i) THEN "front_cover"
    ELSE IF \A i \in Pages : OpenOnly(ps, i) THEN "back_cover"
    ELSE IF OpenOnly(ps, NumPages) THEN "back_cover"
    ELSE IF OpenPages(ps) # {} THEN PageName(SetMax(OpenPages(ps)))
    ELSE NoPage

\* HandleInput that leaves current_page alone while a page floats
HandleInputKeepsPage(a, ins, t, outcome) ==
    LET ps == PageStates(ins)
        b == CheckInvalidState(a, ps, outcome)
        floating_now == FloatingNow(ps)
    IN  IF floating_now # {}
        THEN TrackFloating(b, floating_now, t)
        ELSE SetCurrentPage(ClearFloating(b), SelectPage(ps), outcome)

\* HandleInput that returns once it has cleared a tracked floating set
HandleInputReturnsAfterClear(a, ins, t, outcome) ==
    LET ps == PageStates(ins)
        b == CheckInvalidState(a, ps, outcome)
        floating_now == FloatingNow(ps)
    IN  IF floating_now # {}
        THEN SetCurrentPage(TrackFloating(b, floating_now, t), NoPage, outcome)
        ELSE IF b.floating_pages # None
             THEN ClearFloating(b)
             ELSE SetCurrentPage(ClearFloating(b), SelectPage(ps), outcome)

\* App._handle_input
HandleInput(a, ins, t, outcome) ==
    LET ps == PageStates(ins)
        b == CheckInvalidState(a, ps, outcome)
        floating_now == FloatingNow(ps)
    IN  IF floating_now # {}
        THEN SetCurrentPage(TrackFloating(b, floating_now, t), NoPage, outcome)
        ELSE SetCurrentPage(ClearFloating(b), SelectPage(ps), outcome)

(* ------------------------------------------------------------------ *)
(* VideoStream and the files of its frame cache                       *)
(*                                                                    *)
(* Playback time is counted in milliseconds.  A frame file is named   *)
(* by its index; a surface by the index of the file it was read from. *)
(* ------------------------------------------------------------------ *)

\* clip.duration of the source movie, in milliseconds
ClipDuration == 60

\* source movies: st_mtime of the file, clip.duration and clip.fps; the
\* movie of duration 0 decodes to no frame at all
Movies ==
    {[mtime |-> 1, duration |-> ClipDuration, fps |-> 50],
     [mtime |-> 2, duration |-> ClipDuration, fps |-> 50],
     [mtime |-> 2, duration |-> 0, fps |-> 50]}

\* target_size: the size of the screen the process runs on
TargetSizes == {<<1920, 1080>>, <<1280, 1080>>}

\* fps_limit: max_video_fps of the configuration
FpsLimits == {25, 50}

\* dt handed to advance
Dts == {0, 10, 20, 50}

\* advance is explored until this much time was handed to it since reset
MaxPlayed == 2 * ClipDuration

\* file changes and process restarts explored in one run
MaxEdits == 2

\* len(list(clip.iter_frames(fps))): one frame every 1/fps from 0 to duration
DecodedFrames(movie, fps) == (movie.duration * fps + 999) \div 1000

\* 1.0 / fps
FrameDurationOf(fps) == 1000 \div fps

\* the files of one stream: the source movie (None when the file is absent),
\* metadata.json (None when absent or unreadable), the frame files present
\* in the cache directory, and those of them pg.image.load cannot read
NoCache(movie) == [src |-> movie, meta |-> None, frames |-> {}, bad |-> {}]

\* a VideoStream as its constructor leaves it
NewStream(size, limit) ==
    [fps_limit |-> limit,
     target_size |-> size,
     frame_paths |-> <<>>,
     fps |-> 0,
     frame_duration |-> 0,
     accumulator |-> 0,
     elapsed_time |-> 0,
     frame_index |-> 0,
     finished |-> TRUE,
     last_surface |-> None,
     duration_seconds |-> 0]

\* VideoStream._read_metadata
ReadMetadata(d) == d.meta

\* VideoStream._refresh_frame_paths
RefreshFramePaths(s, d) == [s EXCEPT !.frame_paths = Sorted(d.frames)]

\* VideoStream._cache_is_valid without the width and height of the metadata
CacheIsValidNoSize(s, d, metadata) ==
    /\ metadata # None
    /\ s.frame_paths # <<>>
    /\ metadata[1].source_mtime = d.src[1].mtime
    /\ metadata[1].fps_limit = s.fps_limit
    /\ metadata[1].frame_count = Len(s.frame_paths)

\* VideoStream._cache_is_valid, for a source file that exists
CacheIsValid(s, d, metadata) ==
    /\ metadata # None
    /\ s.frame_paths # <<>>
    /\ metadata[1].source_mtime = d.src[1].mtime
    /\ metadata[1].width = s.target_size[1]
    /\ metadata[1].height = s.target_size[2]
    /\ metadata[1].fps_limit = s.fps_limit
    /\ metadata[1].frame_count = Len(s.frame_paths)

\* Path(self.path).stat() of _cache_is_valid raises: metadata and frames are
\* there and the source file is not
StatRaises(s, d, metadata) ==
    metadata # None /\ s.frame_paths # <<>> /\ d.src = None

\* playback_fps of _rebuild_cache
PlaybackFps(movie, limit) ==
    IF limit > 0
    THEN (IF movie.fps < limit THEN movie.fps ELSE limit)
    ELSE movie.fps

\* Emptied that leaves metadata.json where it is
EmptiedKeepsMetadata(d) == [d EXCEPT !.frames = {}, !.bad = {}]

\* what _rebuild_cache leaves of the cache directory when it raises, and
\* before it saves the first frame: shutil.rmtree, then mkdir
Emptied(d) == [d EXCEPT !.meta = None, !.frames = {}, !.bad = {}]

\* Decoded that records no source_mtime
DecodedNoMtime(s, d, movie, playback_fps, n) ==
    [Emptied(d) EXCEPT
        !.frames = 0..(n - 1),
        !.meta = Some([fps |-> playback_fps,
                       frame_count |-> n,
                       duration |-> movie.duration,
                       width |-> s.target_size[1],
                       height |-> s.target_size[2],
                       fps_limit |-> s.fps_limit,
                       source_mtime |-> 0])]

\* the frames of `movie` saved and the metadata written
Decoded(s, d, movie, playback_fps, n) ==
    [Emptied(d) EXCEPT
        !.frames = 0..(n - 1),
        !.meta = Some([fps |-> playback_fps,
                       frame_count |-> n,
                       duration |-> movie.duration,
                       width |-> s.target_size[1],
                       height |-> s.target_size[2],
                       fps_limit |-> s.fps_limit,
                       source_mtime |-> movie.mtime])]

\* _rebuild_cache once VideoFileClip opened `movie`
DecodeMovie(s, d, movie, playback_fps) ==
    IF DecodedFrames(movie, playback_fps) = 0
    THEN [d |-> Emptied(d), status |-> "RuntimeError"]
    ELSE [d |-> Decoded(s, d, movie, playback_fps,
                        DecodedFrames(movie, playback_fps)),
          status |-> "ok"]

\* VideoStream._rebuild_cache: the directory is emptied, then the movie is
\* decoded, then the metadata is written
RebuildCache(s, d) ==
    IF d.src = None
    THEN [d |-> Emptied(d), status |-> "OSError"]
    ELSE DecodeMovie(s, d, d.src[1], PlaybackFps(d.src[1], s.fps_limit))

\* fps of _apply_metadata
MetadataFps(metadata) == IF metadata[1].fps <= 0 THEN 24 ELSE metadata[1].fps

\* VideoStream._apply_metadata
ApplyMetadata(s, metadata) ==
    [s EXCEPT !.fps = MetadataFps(metadata),
              !.frame_duration = FrameDurationOf(MetadataFps(metadata)),
              !.duration_seconds = metadata[1].duration]

\* the end of VideoStream.ensure_cache, from the second `if` on
EnsureCacheEnd(s, d, rebuilds) ==
    IF ReadMetadata(d) = None \/ s.frame_paths = <<>>
    THEN [s |-> s, d |-> d, status |-> "RuntimeError", rebuilds |-> rebuilds]
    ELSE [s |-> ApplyMetadata(s, ReadMetadata(d)), d |-> d,
          status |-> "ok", rebuilds |-> rebuilds]

\* VideoStream.ensure_cache after _rebuild_cache ended as r says
AfterRebuild(s, r) ==
    IF r.status # "ok"
    THEN [s |-> s, d |-> r.d, status |-> r.status, rebuilds |-> 1]
    ELSE EnsureCacheEnd(RefreshFramePaths(s, r.d), r.d, 1)

\* VideoStream.ensure_cache from `if not self._cache_is_valid(metadata)` on
EnsureCacheOn(s, d) ==
    IF StatRaises(s, d, ReadMetadata(d))
    THEN [s |-> s, d |-> d, status |-> "FileNotFoundError", rebuilds |-> 0]
    ELSE IF CacheIsValid(s, d, ReadMetadata(d))
    THEN EnsureCacheEnd(s, d, 0)
    ELSE AfterRebuild(s, RebuildCache(s, d))

\* VideoStream.ensure_cache: the stream and the files it leaves, how it
\* ends, and the calls of _rebuild_cache it made
EnsureCache(s, d) == EnsureCacheOn(RefreshFramePaths(s, d), d)

\* pg.image.load(str(frame_path)) returns a surface
Readable(d, frame_path) == frame_path \in d.frames \ d.bad

\* max(0, min(index, len(self.frame_paths) - 1))
Clamp(s, index) ==
    IF index < 0 THEN 0
    ELSE IF index > Len(s.frame_paths) - 1 THEN Len(s.frame_paths) - 1
    ELSE index

\* the except branch of _load_frame after ensure_cache ended as e says:
\* "retry" when the loop goes round
Recached(e) ==
    [s |-> e.s, d |-> e.d,
     status |-> IF e.status = "ok" THEN "retry" ELSE e.status,
     rebuilds |-> e.rebuilds, loads |-> 0]

\* one pass of the `while True` of VideoStream._load_frame, and the lines
\* after the loop when the pass leaves it
LoadAttempt(s, d, frame_path, clamped) ==
    IF Readable(d, frame_path)
    THEN [s |-> [s EXCEPT !.last_surface = Some(frame_path),
                          !.frame_index = clamped],
          d |-> d, status |-> "ok", rebuilds |-> 0, loads |-> 1]
    ELSE Recached(EnsureCache(s, d))

\* the result r of a call, with the rebuilds and loads made before it
Plus(r, rebuilds, loads) ==
    [r EXCEPT !.rebuilds = @ + rebuilds, !.loads = @ + loads]

RECURSIVE LoadLoop(_, _, _, _, _)
\* the `while True` of _load_frame after a pass that ended as a says.  A
\* pass that fails to load and leaves the files as they are is followed by
\* the same pass for ever ("hangs"); a pass that rebuilt the cache left a
\* valid cache, so that the next pass either loads or rebuilds nothing.
LoadLoopOn(a, frame_path, clamped, rebuilds) ==
    IF a.status # "retry" THEN Plus(a, rebuilds, 0)
    ELSE IF a.rebuilds = 0 THEN [Plus(a, rebuilds, 0) EXCEPT !.status = "hangs"]
    ELSE LoadLoop(a.s, a.d, frame_path, clamped, rebuilds + a.rebuilds)

\* the `while True` of VideoStream._load_frame
LoadLoop(s, d, frame_path, clamped, rebuilds) ==
    LoadLoopOn(LoadAttempt(s, d, frame_path, clamped), frame_path, clamped, rebuilds)

\* a call that did nothing to the files
Done(s, d) == [s |-> s, d |-> d, status |-> "ok", rebuilds |-> 0, loads |-> 0]

\* VideoStream._load_frame for an index already clamped
LoadFrameAt(s, d, clamped) ==
    LoadLoop(s, d, s.frame_paths[clamped + 1], clamped, 0)

\* VideoStream._load_frame
LoadFrame(s, d, index) ==
    IF s.frame_paths = <<>> THEN Done(s, d)
    ELSE LoadFrameAt(s, d, Clamp(s, index))

\* what a call that ended as `status` before it loaded a frame reports
NoLoads(e, status) ==
    [s |-> e.s, d |-> e.d, status |-> status, rebuilds |-> e.rebuilds, loads |-> 0]

\* VideoStream.reset after ensure_cache ended as e says
ResetOn(e) ==
    IF e.status # "ok" THEN NoLoads(e, e.status)
    ELSE IF e.s.frame_paths = <<>> THEN NoLoads(e, "RuntimeError")
    ELSE Plus(LoadFrame([e.s EXCEPT !.accumulator = 0,
                                    !.elapsed_time = 0,
                                    !.frame_index = 0,
                                    !.finished = FALSE,
                                    !.last_surface = None],
                        e.d, 0),
              e.rebuilds, 0)

\* VideoStream.reset
Reset(s, d) == ResetOn(EnsureCache(s, d))

\* VideoStream.duration
Duration(s) ==
    IF s.duration_seconds > 0 THEN s.duration_seconds
    ELSE IF s.frame_paths # <<>> THEN Len(s.frame_paths) * s.frame_duration
    ELSE 0

\* the stream after the branch of the `while` of advance that ends the clip
EndOfClip(s) ==
    [s EXCEPT !.finished = TRUE,
              !.frame_index = Len(s.frame_paths) - 1,
              !.accumulator = 0]

RECURSIVE AdvanceLoop(_, _, _, _)
\* the `while` of advance after _load_frame ended as l says
AdvanceLoopOn(l, rebuilds, loads) ==
    IF l.status # "ok" THEN Plus(l, rebuilds, loads)
    ELSE AdvanceLoop(l.s, l.d, rebuilds + l.rebuilds, loads + l.loads)

\* one pass of the `while` of advance, the accumulator already reduced
AdvancePass(s, d) ==
    IF s.frame_index + 1 >= Len(s.frame_paths)
    THEN Done(EndOfClip(s), d)
    ELSE LoadFrame([s EXCEPT !.frame_index = @ + 1], d, s.frame_index + 1)

\* AdvanceLoop as an `if`: one pass at most
AdvanceLoopOnce(s, d, rebuilds, loads) ==
    IF ~(s.accumulator >= s.frame_duration /\ ~s.finished)
    THEN Plus(Done(s, d), rebuilds, loads)
    ELSE Plus(AdvancePass([s EXCEPT !.accumulator = @ - s.frame_duration], d),
              rebuilds, loads)

\* the `while` of VideoStream.advance
AdvanceLoop(s, d, rebuilds, loads) ==
    IF ~(s.accumulator >= s.frame_duration /\ ~s.finished)
    THEN Plus(Done(s, d), rebuilds, loads)
    ELSE AdvanceLoopOn(
             AdvancePass([s EXCEPT !.accumulator = @ - s.frame_duration], d),
             rebuilds, loads)

\* min(self.accumulator, self.frame_duration)
Min(a, b) == IF a < b THEN a ELSE b

\* elapsed_time as the last lines of advance set it
ElapsedTime(s) ==
    IF s.finished THEN Duration(s)
    ELSE s.frame_index * s.frame_duration + Min(s.accumulator, s.frame_duration)

\* the last lines of advance after its calls of _load_frame ended as l says
SetElapsed(l) ==
    IF l.status # "ok" THEN l
    ELSE [l EXCEPT !.s.elapsed_time = ElapsedTime(l.s)]

\* the lines of VideoStream.advance after the `while` ended as w says
AdvanceEnd(w) ==
    IF w.status # "ok" THEN w
    ELSE IF w.s.finished /\ w.s.last_surface = None
    THEN SetElapsed(Plus(LoadFrame(w.s, w.d, w.s.frame_index),
                         w.rebuilds, w.loads))
    ELSE SetElapsed(w)

\* the `while` of advance ending a clip by playing it again from frame 0
Rewound(w) ==
    IF w.status = "ok" /\ w.s.finished
    THEN [w EXCEPT !.s.finished = FALSE, !.s.frame_index = 0]
    ELSE w

\* VideoStream.advance that plays the clip again from frame 0 at its end
AdvanceLooping(s, d, dt) ==
    IF s.frame_paths = <<>> \/ s.finished THEN Done(s, d)
    ELSE AdvanceEnd(Rewound(AdvanceLoop([s EXCEPT !.accumulator = @ + dt], d, 0, 0)))

\* VideoStream.advance
Advance(s, d, dt) ==
    IF s.frame_paths = <<>> \/ s.finished THEN Done(s, d)
    ELSE AdvanceEnd(AdvanceLoop([s EXCEPT !.accumulator = @ + dt], d, 0, 0))

\* the stream as VideoStream.close leaves it
Closed(s) ==
    [s EXCEPT !.accumulator = 0, !.elapsed_time = 0, !.frame_index = 0,
              !.finished = TRUE, !.last_surface = None]

\* VideoStream.close that also deletes the frame files
CloseDeletesFrames(s, d) == Done(Closed(s), [d EXCEPT !.frames = {}, !.bad = {}])

\* VideoStream.close
Close(s, d) == Done(Closed(s), d)

(* ------------------------------------------------------------------ *)
(* Actions                                                            *)
(* ------------------------------------------------------------------ *)

\* SwitchStates.__init__, the receiver thread before its first line, and the
\* main thread outside _handle_input
NoReading ==
    [states |-> [k \in Keys |-> FALSE],
     new_states |-> None,
     next_key |-> 0,
     received |-> {},
     lines |-> 0,
     line |-> <<>>,
     linked |-> FALSE,
     reading |-> FALSE,
     seen |-> <<>>]

\* no call was made on the stream yet
NoCall ==
    [op |-> "init", status |-> "ok", rebuilds |-> 0, loads |-> 0, ret |-> None,
     played |-> None, edits |-> 0, clean |-> TRUE, ensured |-> None,
     before |-> [op |-> "init", status |-> "ok", clean |-> TRUE,
                 ensured |-> None, played |-> None],
     frame_path |-> 0, clamped |-> 0, logged |-> 0]

\* the state after App.__init__ with every source file present
Init ==
    /\ app = NewApp({})
    /\ inputs = [k \in {} |-> FALSE]
    /\ now = 0
    /\ ticks = 0
    /\ page_states = PageStates([k \in {} |-> FALSE])
    /\ vs = NewStream(<<1920, 1080>>, 50)
    /\ disk = NoCache(Some([mtime |-> 1, duration |-> ClipDuration, fps |-> 50]))
    /\ ops = NoCall
    /\ rx = NoReading
    /\ pc = "start"

\* The files on disk matter to an iteration only when it calls
\* VideoStream.reset, which is when a failing reset is logged: otherwise one
\* outcome stands for all.
OutcomesFor(r, t) ==
    IF HandleInput(app, r, t, "ErrorInEnsureCache").start_error = NoPage
    THEN {"ok"}
    ELSE ResetOutcomes

\* One iteration of the loop of App.run.  Between two iterations the receiver
\* thread calls App.handle_input any number of times and the last call wins:
\* r is the reading self.inputs holds when self._handle_input(self.inputs)
\* runs (r = inputs when nothing new arrived); the files on disk are in a
\* state that makes a call of VideoStream.reset end as `outcome` says.
\* app.errors, app.start_error and app.changes start empty: they hold what
\* this iteration logs.
_handle_input(r, dt, outcome) ==
    /\ ticks' = ticks + 1
    /\ now' = now + dt
    /\ inputs' = r
    /\ page_states' = PageStates(r)
    /\ app' = HandleInput([app EXCEPT !.errors = {}, !.start_error = NoPage,
                                      !.changes = <<>>],
                          r, now + dt, outcome)
    /\ UNCHANGED <<stream_vars, rx, pc>>

\* MaxTicks iterations on the readings of the scenario, then one on any reading
Next ==
    \/ /\ ticks < MaxTicks
       /\ \E r \in ScenarioReadings, dt \in Deltas :
             \E outcome \in OutcomesFor(r, now + dt) : _handle_input(r, dt, outcome)
    \/ /\ ticks = MaxTicks
       /\ \E r \in Readings, dt \in Deltas :
             \E outcome \in OutcomesFor(r, now + dt) : _handle_input(r, dt, outcome)

Spec == Init /\ [][Next]_vars

\* MaxFaultTicks iterations on the fault readings
NextFaults ==
    /\ ticks < MaxFaultTicks
    /\ \E r \in FaultReadings, dt \in Deltas :
          \E outcome \in OutcomesFor(r, now + dt) : _handle_input(r, dt, outcome)

SpecFaults == Init /\ [][NextFaults]_vars

(* ------------------------------------------------------------------ *)
(* One VideoStream, its files, and what happens to them               *)
(* ------------------------------------------------------------------ *)

\* the call never returns, or raised out of App.run: nothing is called after it
Halted ==
    \/ ops.status = "hangs"
    \/ ops.op = "advance" /\ ops.status # "ok"

\* VideoStream._load_frame is in its `while True`
Loading == ops.status = "loading"

\* what the last successful ensure_cache found, for a stream s
Ensured(s) ==
    Some([size |-> s.target_size, limit |-> s.fps_limit,
          frame_count |-> Len(s.frame_paths), fps |-> s.fps,
          duration |-> Duration(s)])

\* what the next call finds: the last call, whether the files are as the
\* last successful ensure_cache left them, what that ensure_cache found, and
\* the time handed to advance since the last successful reset
Before ==
    [op |-> ops.op, status |-> ops.status, clean |-> ops.clean,
     ensured |-> ops.ensured, played |-> ops.played]

\* the record of a call `op` that ended as r says and returned `ret`
Called(op, r, ret, played) ==
    [ops EXCEPT !.op = op,
                !.status = r.status,
                !.rebuilds = r.rebuilds,
                !.loads = r.loads,
                !.ret = ret,
                !.played = played,
                !.before = Before,
                !.clean = IF op \in {"ensure_cache", "reset"} /\ r.status = "ok"
                          THEN TRUE ELSE ops.clean /\ r.d = disk,
                !.ensured = IF op \in {"ensure_cache", "reset"} /\ r.status = "ok"
                            THEN Ensured(r.s) ELSE ops.ensured]

\* the record of a change `op` made to the files from outside
Edited(op) ==
    [ops EXCEPT !.op = op, !.status = "ok", !.rebuilds = 0, !.loads = 0,
                !.ret = None,
                !.before = Before,
                !.clean = FALSE,
                !.edits = @ + 1]

\* VideoStream.ensure_cache, as App.run calls it for every stream before
\* any of them plays
ensure_cache ==
    /\ ~Halted /\ ~Loading
    /\ ops.played = None
    /\ \E r \in {EnsureCache(vs, disk)} :
          /\ vs' = r.s
          /\ disk' = r.d
          /\ ops' = Called("ensure_cache", NoLoads(r, r.status), None, ops.played)
    /\ UNCHANGED app_vars

\* VideoStream.reset, as the setter of current_page calls it
reset ==
    /\ ~Halted /\ ~Loading
    /\ \E r \in {Reset(vs, disk)} :
          /\ vs' = r.s
          /\ disk' = r.d
          /\ ops' = Called("reset", r, None,
                           IF r.status = "ok" THEN Some(0) ELSE None)
    /\ UNCHANGED app_vars

\* VideoStream.advance, as the main loop calls it
advance(dt) ==
    /\ ~Halted /\ ~Loading
    /\ ops.played # None => ops.played[1] + dt <= MaxPlayed
    /\ \E r \in {Advance(vs, disk, dt)} :
          /\ vs' = r.s
          /\ disk' = r.d
          /\ ops' = Called("advance", r,
                           IF r.status = "ok" THEN r.s.last_surface ELSE None,
                           IF ops.played # None /\ r.status = "ok"
                           THEN Some(ops.played[1] + dt) ELSE ops.played)
    /\ UNCHANGED app_vars

\* VideoStream.close, as the setter of current_page calls it
close ==
    /\ ~Halted /\ ~Loading
    /\ \E r \in {Close(vs, disk)} :
          /\ vs' = r.s
          /\ disk' = r.d
          /\ ops' = Called("close", r, None, None)
    /\ UNCHANGED app_vars

\* the process starts again, on a screen of size `size` with max_video_fps
\* `limit`: prepare_videos constructs the stream anew, the files stay
restart(size, limit) ==
    /\ ops.edits < MaxEdits
    /\ ~Loading
    /\ vs' = NewStream(size, limit)
    /\ disk' = disk
    /\ ops' = [ops EXCEPT !.op = "restart", !.status = "ok", !.rebuilds = 0,
                          !.loads = 0, !.ret = None, !.played = None,
                          !.before = Before,
                          !.edits = @ + 1]
    /\ UNCHANGED app_vars

\* the source movie is replaced by another one
touch_source(movie) ==
    /\ ops.edits < MaxEdits
    /\ ~Halted /\ ~Loading
    /\ disk.src # Some(movie)
    /\ disk' = [disk EXCEPT !.src = Some(movie)]
    /\ ops' = Edited("touch_source")
    /\ UNCHANGED <<vs, app_vars>>

\* the source movie is removed
remove_source ==
    /\ ops.edits < MaxEdits
    /\ ~Halted /\ ~Loading
    /\ disk.src # None
    /\ disk' = [disk EXCEPT !.src = None]
    /\ ops' = Edited("remove_source")
    /\ UNCHANGED <<vs, app_vars>>

\* frame file i is removed from the cache directory
delete_frame(i) ==
    /\ ops.edits < MaxEdits
    /\ ~Halted /\ ~Loading
    /\ i \in disk.frames
    /\ disk' = [disk EXCEPT !.frames = @ \ {i}, !.bad = @ \ {i}]
    /\ ops' = Edited("delete_frame")
    /\ UNCHANGED <<vs, app_vars>>

\* frame file i is damaged: pg.image.load raises on it from now on
corrupt_frame(i) ==
    /\ ops.edits < MaxEdits
    /\ ~Halted /\ ~Loading
    /\ i \in disk.frames \ disk.bad
    /\ disk' = [disk EXCEPT !.bad = @ \cup {i}]
    /\ ops' = Edited("corrupt_frame")
    /\ UNCHANGED <<vs, app_vars>>

\* metadata.json is removed or damaged
delete_metadata ==
    /\ ops.edits < MaxEdits
    /\ ~Halted /\ ~Loading
    /\ disk.meta # None
    /\ disk' = [disk EXCEPT !.meta = None]
    /\ ops' = Edited("delete_metadata")
    /\ UNCHANGED <<vs, app_vars>>

\* the files change under the stream
edit_files ==
    \/ \E movie \in Movies : touch_source(movie)
    \/ remove_source
    \/ \E i \in disk.frames : delete_frame(i)
    \/ \E i \in disk.frames : corrupt_frame(i)
    \/ delete_metadata

\* the calls the App makes on one stream, in any order, while its files change
NextStream ==
    \/ ensure_cache
    \/ reset
    \/ \E dt \in Dts : advance(dt)
    \/ close
    \/ \E size \in TargetSizes, limit \in FpsLimits : restart(size, limit)
    \/ edit_files

SpecStream == Init /\ [][NextStream]_vars

\* VideoStream._load_frame is called with `index` and enters its `while True`
load_frame_begin(index) ==
    /\ ~Halted /\ ~Loading
    /\ vs.frame_paths # <<>>
    /\ ops' = [ops EXCEPT !.op = "_load_frame", !.status = "loading",
                          !.rebuilds = 0, !.loads = 0, !.ret = None,
                          !.frame_path = vs.frame_paths[Clamp(vs, index) + 1],
                          !.clamped = Clamp(vs, index),
                          !.before = Before]
    /\ UNCHANGED <<vs, disk, app_vars>>

\* one pass of the `while True`; every failed pass logs an exception
load_frame_pass ==
    /\ Loading
    /\ \E a \in {LoadAttempt(vs, disk, ops.frame_path, ops.clamped)} :
          /\ vs' = a.s
          /\ disk' = a.d
          /\ ops' = [ops EXCEPT
                        !.status = IF a.status = "retry" THEN "loading" ELSE a.status,
                        !.rebuilds = @ + a.rebuilds,
                        !.loads = @ + a.loads,
                        !.logged = IF a.status = "ok" THEN @ ELSE 1 - @,
                        !.clean = @ /\ a.d = disk]
    /\ UNCHANGED app_vars

\* _load_frame on a stream that ensure_cache prepared, after the files changed
NextLoad ==
    \/ ensure_cache
    \/ edit_files
    \/ \E index \in 0..Len(vs.frame_paths) : load_frame_begin(index)
    \/ load_frame_pass

\* the main thread is never suspended for ever: a pass of the loop that can
\* run does run
SpecLoad == Init /\ [][NextLoad]_vars /\ WF_vars(load_frame_pass)

(* ------------------------------------------------------------------ *)
(* VideoStream._rebuild_cache file by file                            *)
(* ------------------------------------------------------------------ *)

\* _rebuild_cache is between its rmtree and its return
Rebuilding == ops.status = "rebuilding"

\* the frames clip.iter_frames yields for the source file as it is
FramesToSave ==
    IF disk.src = None THEN 0
    ELSE DecodedFrames(disk.src[1], PlaybackFps(disk.src[1], vs.fps_limit))

\* ensure_cache finds the cache invalid and calls _rebuild_cache, which
\* removes the cache directory and makes it anew
rebuild_begin ==
    /\ ~Halted /\ ~Loading /\ ~Rebuilding
    /\ ops.played = None
    /\ ~StatRaises(RefreshFramePaths(vs, disk), disk, ReadMetadata(disk))
    /\ ~CacheIsValid(RefreshFramePaths(vs, disk), disk, ReadMetadata(disk))
    /\ vs' = RefreshFramePaths(vs, disk)
    /\ disk' = Emptied(disk)
    /\ ops' = [ops EXCEPT !.op = "_rebuild_cache", !.status = "rebuilding",
                          !.rebuilds = 1, !.loads = 0, !.ret = None,
                          !.before = Before,
                          !.clean = FALSE]
    /\ UNCHANGED app_vars

\* pg.image.save(surface, frame_path) of the next frame
rebuild_save_frame ==
    /\ Rebuilding
    /\ Cardinality(disk.frames) < FramesToSave
    /\ disk' = [disk EXCEPT !.frames = @ \cup {Cardinality(@)}]
    /\ UNCHANGED <<vs, ops, app_vars>>

\* every frame is saved: _write_metadata, and ensure_cache goes on to its end
rebuild_write_metadata ==
    /\ Rebuilding
    /\ FramesToSave > 0
    /\ Cardinality(disk.frames) = FramesToSave
    /\ \E r \in {AfterRebuild(vs, DecodeMovie(vs, disk, disk.src[1],
                                 PlaybackFps(disk.src[1], vs.fps_limit)))} :
          /\ vs' = r.s
          /\ disk' = r.d
          /\ ops' = [Called("ensure_cache", NoLoads(r, r.status), None, ops.played)
                        EXCEPT !.before = ops.before]
    /\ UNCHANGED app_vars

\* _rebuild_cache does not get to _write_metadata: VideoFileClip cannot open
\* the source, no frame was decoded, saving a frame raises, or the process
\* is stopped
rebuild_stop ==
    /\ Rebuilding
    /\ ops' = [ops EXCEPT !.status =
                  IF disk.src = None THEN "OSError"
                  ELSE IF FramesToSave = 0 THEN "RuntimeError"
                  ELSE "interrupted"]
    /\ UNCHANGED <<vs, disk, app_vars>>

\* one stream whose cache is rebuilt file by file, started again, and whose
\* files change between two calls
NextRebuild ==
    \/ rebuild_begin
    \/ rebuild_save_frame
    \/ rebuild_write_metadata
    \/ rebuild_stop
    \/ ~Rebuilding /\ ensure_cache
    \/ ~Rebuilding /\ \E size \in TargetSizes, limit \in FpsLimits : restart(size, limit)
    \/ ~Rebuilding /\ edit_files

SpecRebuild == Init /\ [][NextRebuild]_vars

(* ------------------------------------------------------------------ *)
(* The receiver thread and the main thread on one dictionary          *)
(*                                                                    *)
(* SwitchStates.update_states writes the keys of self.states one by   *)
(* one and hands that same dictionary to App.handle_input, which      *)
(* keeps the reference; App._handle_input reads the ten keys one by   *)
(* one.  The interpreter may switch threads between any two of these  *)
(* dictionary accesses.                                               *)
(* ------------------------------------------------------------------ *)

\* iterations of the main loop in this part of the model
MaxReads == 1

\* lines the receiver thread gets in this part of the model
MaxLines == 2

\* the lines the receiver gets: a closed book, a book opened up to page 2 or
\* to the end
HandoffReadings ==
    {Reading(<<"C", "C", "C", "C", "C">>),
     Reading(<<"O", "O", "C", "C", "C">>),
     Reading(<<"O", "O", "O", "O", "O">>)}

\* the k-th key, in the order of parse.map, which is the order of
\* new_states.items() and of the list that _handle_input builds
KeyAt(k) == <<(k + 1) \div 2, IF k % 2 = 1 THEN "open" ELSE "close">>

NumKeys == 2 * NumPages

\* the dictionary self.inputs refers to: {} until the first handle_input,
\* SwitchStates.states itself from then on
Shared(linked, states) == IF linked THEN states ELSE inputs

\* the receiver thread enters update_states(new_states)
update_states_begin(new_states) ==
    /\ rx.new_states = None
    /\ rx.lines < MaxLines
    /\ rx' = [rx EXCEPT !.new_states = Some(new_states),
                        !.next_key = 1,
                        !.lines = @ + 1,
                        !.received = @ \cup {new_states}]
    /\ UNCHANGED <<app, inputs, now, ticks, page_states, pc, stream_vars>>

\* one turn of its for loop: self.states[key] = new_value
update_states_key ==
    /\ rx.new_states # None
    /\ rx.next_key <= NumKeys
    /\ \E written \in {[rx.states EXCEPT ![KeyAt(rx.next_key)] =
                                         rx.new_states[1][KeyAt(rx.next_key)]]} :
          /\ rx' = [rx EXCEPT !.states = written, !.next_key = @ + 1]
          /\ inputs' = Shared(rx.linked, written)
    /\ UNCHANGED <<app, now, ticks, page_states, pc, stream_vars>>

\* self.app_callback(self.states), which is App.handle_input:
\* self.inputs = inputs
update_states_callback ==
    /\ rx.new_states # None
    /\ rx.next_key > NumKeys
    /\ rx' = [rx EXCEPT !.new_states = None, !.next_key = 0, !.linked = TRUE]
    /\ inputs' = rx.states
    /\ UNCHANGED <<app, now, ticks, page_states, pc, stream_vars>>

\* the main thread enters _handle_input(self.inputs)
handle_input_begin ==
    /\ ~rx.reading
    /\ ticks < MaxReads
    /\ rx' = [rx EXCEPT !.reading = TRUE, !.seen = <<>>]
    /\ UNCHANGED <<app, inputs, now, ticks, page_states, pc, stream_vars>>

\* one inputs.get(key, False) of the list it builds
handle_input_get ==
    /\ rx.reading
    /\ Len(rx.seen) < NumKeys
    /\ rx' = [rx EXCEPT !.seen = Append(@, Get(inputs, KeyAt(Len(@) + 1)))]
    /\ UNCHANGED <<app, inputs, now, ticks, page_states, pc, stream_vars>>

\* the ten values as the dictionary they would have been read from
Seen(seen) == [k \in Keys |-> seen[2 * k[1] - (IF k[2] = "open" THEN 1 ELSE 0)]]

\* the rest of _handle_input, on the list it has built
handle_input_select(dt, outcome) ==
    /\ rx.reading
    /\ Len(rx.seen) = NumKeys
    /\ rx' = [rx EXCEPT !.reading = FALSE, !.seen = <<>>]
    /\ ticks' = ticks + 1
    /\ now' = now + dt
    /\ page_states' = PageStates(Seen(rx.seen))
    /\ app' = HandleInput([app EXCEPT !.errors = {}, !.start_error = NoPage,
                                      !.changes = <<>>],
                          Seen(rx.seen), now + dt, outcome)
    /\ UNCHANGED <<inputs, pc, stream_vars>>

NextHandoff ==
    \/ \E new_states \in HandoffReadings : update_states_begin(new_states)
    \/ update_states_key
    \/ update_states_callback
    \/ handle_input_begin
    \/ handle_input_get
    \/ handle_input_select(1, "ok")

SpecHandoff == Init /\ [][NextHandoff]_vars

(* ------------------------------------------------------------------ *)
(* The receiver thread from a raw line to App.inputs                  *)
(*                                                                    *)
(* A raw line is the sequence of its comma-separated fields.          *)
(* ------------------------------------------------------------------ *)

\* the complete line of a reading
LineOf(r) == [k \in 1..NumKeys |-> IF r[KeyAt(k)] THEN "1" ELSE "0"]

\* the lines of a closed book and of a book opened to the end
FullLines ==
    {LineOf(Reading(<<"C", "C", "C", "C", "C">>)),
     LineOf(Reading(<<"O", "O", "O", "O", "O">>))}

\* the lines the receiver gets: complete ones, lines cut after 2 or 9
\* fields, lines whose first or fifth field is no number, and lines with
\* an eleventh field
RawLines ==
    FullLines
    \cup {SubSeq(line, 1, n) : line \in FullLines, n \in {2, NumKeys - 1}}
    \cup {[line EXCEPT ![k] = "x"] : line \in FullLines, k \in {1, 5}}
    \cup {Append(line, "1") : line \in FullLines}

\* self.map.get(index, f"unknown_{index}")
MapGet(index) ==
    IF index < NumKeys THEN KeyAt(index + 1) ELSE <<index, "unknown">>

\* parsed_data[key] = value
DictSet(dict, key, value) ==
    [k \in DOMAIN dict \cup {key} |-> IF k = key THEN value ELSE dict[k]]

RECURSIVE ParseFrom(_, _, _)
\* the for loop of parse_line from field `index` on: int(state) raises
\* ValueError on a field that is no number, and what was parsed is returned
ParseFrom(states, index, parsed_data) ==
    IF index >= Len(states) THEN parsed_data
    ELSE IF states[index + 1] \notin {"0", "1"} THEN parsed_data
    ELSE ParseFrom(states, index + 1,
                   DictSet(parsed_data, MapGet(index), states[index + 1] = "1"))

\* DataParser.parse_line
ParseLine(line) == ParseFrom(line, 0, [k \in {} |-> FALSE])

\* the for loop of SwitchStates.update_states: unknown keys are skipped
UpdateStates(states, new_states) ==
    [key \in DOMAIN states |->
        IF key \in DOMAIN new_states THEN new_states[key] ELSE states[key]]

\* SerialReceiver.run hands a line to DataParser.input_line: parse_line, then
\* update_states and App.handle_input unless nothing was parsed
input_line(line) ==
    /\ rx.new_states = None
    /\ rx.lines < MaxLines
    /\ \E parsed \in {ParseLine(line)} :
          IF DOMAIN parsed # {}
          THEN /\ rx' = [rx EXCEPT !.states = UpdateStates(@, parsed),
                                   !.linked = TRUE,
                                   !.lines = @ + 1,
                                   !.line = line]
               /\ inputs' = UpdateStates(rx.states, parsed)
          ELSE /\ rx' = [rx EXCEPT !.lines = @ + 1, !.line = line]
               /\ inputs' = inputs
    /\ UNCHANGED <<app, now, ticks, page_states, pc, stream_vars>>

\* the receiver thread between two iterations of the main loop
NextParse ==
    \/ \E line \in RawLines : input_line(line)
    \/ /\ ticks < MaxReads
       /\ _handle_input(inputs, 1, "ok")

SpecParse == Init /\ [][NextParse]_vars

(* ------------------------------------------------------------------ *)
(* App.run: the cache preparation, then the loop that selects a page  *)
(* and advances its stream                                            *)
(* ------------------------------------------------------------------ *)

\* iterations of the main loop in this part of the model
MaxRunTicks == 3

\* a closed book, a book opened up to page 2 or to the end, and a book
\* opened up to page 2 with a contactor fault on page 3
RunReadings ==
    {Reading(<<"C", "C", "C", "C", "C">>),
     Reading(<<"O", "O", "C", "C", "C">>),
     Reading(<<"O", "O", "O", "O", "O">>),
     Reading(<<"O", "O", "X", "C", "C">>)}

\* self.clock.tick(self.target_fps): one frame of the clip, or a slow iteration
RunDts == {20, 50}

\* the source files a page can have when App.run starts: a movie, a file no
\* frame can be decoded from, or no file any more
SourceFiles == {NoCache(Some(movie)) : movie \in Movies} \cup {NoCache(None)}

\* a stream and its files after ensure_cache built the cache of a movie
Prepared ==
    EnsureCache(NewStream(<<1920, 1080>>, 50),
                NoCache(Some([mtime |-> 1, duration |-> ClipDuration, fps |-> 50])))

\* the files of the page shown while its stream plays: as ensure_cache left
\* them, with every frame file unreadable, or gone together with the source
PlayingFiles ==
    {Prepared.d,
     [Prepared.d EXCEPT !.bad = Prepared.d.frames],
     [Prepared.d EXCEPT !.src = None, !.meta = None, !.frames = {}]}

\* the VideoStream whose playback fields the selector keeps in pb
StreamOf(pb) ==
    [Prepared.s EXCEPT !.accumulator = pb.accumulator,
                       !.elapsed_time = pb.elapsed_time,
                       !.frame_index = pb.frame_index,
                       !.finished = pb.finished,
                       !.last_surface = pb.last_surface]

\* the playback fields of a VideoStream
Playback(s) ==
    [accumulator |-> s.accumulator, elapsed_time |-> s.elapsed_time,
     frame_index |-> s.frame_index, finished |-> s.finished,
     last_surface |-> s.last_surface]

\* where App.run is after a call that ended with this status: no try
\* statement of run encloses its calls of ensure_cache and advance
After(status) ==
    CASE status = "ok" -> "loop"
      [] status = "hangs" -> "hangs"
      [] OTHER -> "raised"

\* for key in self.videos: self.videos[key].ensure_cache(), where d is the
\* files of the first page whose files are not a plain movie
run_prepare(d) ==
    /\ pc = "start"
    /\ pc' = After(EnsureCache(NewStream(<<1920, 1080>>, 50), d).status)
    /\ UNCHANGED <<app, inputs, now, ticks, page_states, rx, stream_vars>>

\* self._handle_input(self.inputs) of one iteration
run_handle_input(r, dt, outcome) ==
    /\ pc = "loop"
    /\ ticks < MaxRunTicks
    /\ _handle_input(r, dt, outcome)

\* frame_surface = stream.advance(dt) and the lines that follow it, with the
\* files of the current page as d says
run_advance(dt, d) ==
    /\ pc = "loop"
    /\ app.current_page # NoPage
    /\ app.current_page \in app.videos
    /\ \E r \in {Advance(StreamOf(app.streams[app.current_page]), d, dt)} :
          /\ pc' = After(r.status)
          /\ app' = [app EXCEPT
                       !.streams[app.current_page] = Playback(r.s),
                       !.video_times[app.current_page] =
                           IF r.status = "ok" /\ r.s.last_surface # None
                           THEN r.s.elapsed_time ELSE @]
    /\ UNCHANGED <<inputs, now, ticks, page_states, rx, stream_vars>>

NextRun ==
    \/ \E d \in SourceFiles : run_prepare(d)
    \/ \E r \in RunReadings :
          \E outcome \in OutcomesFor(r, now + 1) : run_handle_input(r, 1, outcome)
    \/ \E dt \in RunDts, d \in PlayingFiles : run_advance(dt, d)

SpecRun == Init /\ [][NextRun]_vars

(* ------------------------------------------------------------------ *)
(* Readings of the last iteration                                     *)
(* ------------------------------------------------------------------ *)

AllClosed == \A i \in Pages : ClosedOnly(page_states, i)

AllOpen == \A i \in Pages : OpenOnly(page_states, i)

AnyInvalid == \E i \in Pages : Invalid(page_states, i)

AnyFloating == FloatingNow(page_states) # {}

\* the page, or None when starting the stream of that page raised
StartedOrNone(page) == IF app.start_error = page THEN NoPage ELSE page

(* ------------------------------------------------------------------ *)
(* C1                                                                 *)
(* ------------------------------------------------------------------ *)

\* C1 as stated: after an iteration on all-closed readings current_page is
\* front_cover, after one on all-open readings it is back_cover.
C1_AsStated ==
    /\ AllClosed => app.current_page = "front_cover"
    /\ AllOpen => app.current_page = "back_cover"

\* C1 amended: after an iteration on all-closed readings current_page is
\* front_cover, after one on all-open readings it is back_cover, except that
\* it is None when the iteration had to start that page's stream and
\* VideoStream.reset raised.
C1_CoversSelected ==
    /\ AllClosed => app.current_page = StartedOrNone("front_cover")
    /\ AllOpen => app.current_page = StartedOrNone("back_cover")

\* an all-closed iteration after the scenario iterations, more than thirty
\* seconds into the run, selected front_cover
C1_Witness ==
    /\ AllClosed
    /\ app.current_page = "front_cover"
    /\ ticks > MaxTicks
    /\ now > FLOATING_LIMIT

(* ------------------------------------------------------------------ *)
(* C2                                                                 *)
(* ------------------------------------------------------------------ *)

\* C2: after an iteration in which some page is both open and closed,
\* current_page is None.
C2_InvalidForcesNone == AnyInvalid => app.current_page = NoPage

(* ------------------------------------------------------------------ *)
(* C3                                                                 *)
(* ------------------------------------------------------------------ *)

\* C3: after an iteration in which some page is floating, current_page is
\* None, whatever the other pages read.
C3_FloatingForcesNone == AnyFloating => app.current_page = NoPage

\* page 1 floats while page 3 is invalid and page 5 is open
C3_Witness ==
    /\ ticks > MaxTicks
    /\ Floating(page_states, 1)
    /\ Invalid(page_states, 3)
    /\ OpenOnly(page_states, 5)
    /\ app.current_page = NoPage

(* ------------------------------------------------------------------ *)
(* C4 .. C7: the ledger of reported faults                            *)
(* ------------------------------------------------------------------ *)

\* the iteration that ended in state a logged the floating fault of sig
LoggedFloating(a, sig) == [kind |-> "floating", pages |-> sig] \in a.errors

\* the iteration that ended in state a logged the contactor fault of page i
LoggedContactor(a, i) == [kind |-> "contactor", pages |-> {i}] \in a.errors

\* C4: while the floating set stays the same over consecutive iterations its
\* fault is logged once, not once per iteration: an iteration that follows
\* one that logged it, with the same floating set, does not log it again.
C4_LoggedOncePerEpisode ==
    [][\A sig \in SUBSET Pages :
          (/\ sig # {}
           /\ FloatingNow(page_states) = sig
           /\ FloatingNow(page_states') = sig
           /\ LoggedFloating(app, sig))
          => ~LoggedFloating(app', sig)]_vars

\* C5: while page i stays invalid its contactor fault is not logged a second
\* time, and when page i was valid in the last iteration and is the first
\* invalid page of this one, this one logs its fault.
C5_ContactorRelogged ==
    [][\A i \in Pages :
          /\ (Invalid(page_states, i) /\ LoggedContactor(app, i)
                 /\ Invalid(page_states', i))
             => ~LoggedContactor(app', i)
          /\ (/\ ~Invalid(page_states, i)
              /\ Invalid(page_states', i)
              /\ \A j \in 1..(i - 1) : ~Invalid(page_states', j))
             => LoggedContactor(app', i)]_vars

\* C6: a reported floating signature leaves reported_faults in the first
\* iteration whose floating set is another one: a signature of several pages
\* (only a floating set has several) that is in reported_faults is the
\* floating set of the last iteration.
C6_FloatingSignaturePurged ==
    \A sig \in app.reported_faults :
        Cardinality(sig) > 1 => sig = FloatingNow(page_states)

\* C7: the floating fault is logged only by an iteration whose floating set
\* is the tracked one and whose clock is more than 30 s past
\* floating_start_time; with the set unchanged, the iteration at 30.000 s
\* logs nothing and the iteration at 30.001 s logs the fault.
C7_LoggedPastThirtySeconds ==
    [][LET floating_now == FloatingNow(page_states')
           unchanged == /\ app.floating_start_time # None
                        /\ app.floating_pages = Some(floating_now)
                        /\ floating_now # {}
                        /\ \A i \in Pages : ~Invalid(page_states', i)
           elapsed == now' - app.floating_start_time[1]
       IN  /\ \A sig \in SUBSET Pages :
                 LoggedFloating(app', sig)
                 => (unchanged /\ sig = floating_now /\ elapsed > FLOATING_LIMIT)
           /\ (unchanged /\ elapsed = FLOATING_LIMIT)
              => ~LoggedFloating(app', floating_now)
           /\ (unchanged /\ elapsed = FLOATING_LIMIT + 1)
              => LoggedFloating(app', floating_now)]_vars

(* ------------------------------------------------------------------ *)
(* C8 .. C10: the page selected on readings without a fault           *)
(* ------------------------------------------------------------------ *)

NoFaultReading == ~AnyInvalid /\ ~AnyFloating

\* C8 as stated: no page floating or invalid and page 5 open: back_cover.
C8_AsStated ==
    (NoFaultReading /\ OpenOnly(page_states, NumPages))
    => app.current_page = "back_cover"

\* C8 amended: no page floating or invalid and page 5 open: back_cover,
\* whatever pages 1..4 read, except that current_page is None when the
\* iteration had to start the stream of back_cover and VideoStream.reset raised.
C8_PageFiveOpen ==
    (NoFaultReading /\ OpenOnly(page_states, NumPages))
    => app.current_page = StartedOrNone("back_cover")

\* page 5 open while page 2 is open and pages 1, 3 and 4 are closed
C8_Witness ==
    /\ OpenPages(page_states) = {2, NumPages}
    /\ \A i \in {1, 3, 4} : ClosedOnly(page_states, i)
    /\ app.current_page = "back_cover"
    /\ ticks > MaxTicks

\* C9 as stated: no page floating or invalid, page 5 not open, some page
\* open: the highest open page; no page open and not all closed: None.
C9_AsStated ==
    /\ (NoFaultReading /\ ~OpenOnly(page_states, NumPages)
           /\ OpenPages(page_states) # {})
       => app.current_page = PageName(SetMax(OpenPages(page_states)))
    /\ (OpenPages(page_states) = {} /\ ~AllClosed)
       => app.current_page = NoPage

\* C9 amended: as stated, except that current_page is None when the
\* iteration had to start the stream of the highest open page and
\* VideoStream.reset raised.
C9_HighestOpenPage ==
    /\ (NoFaultReading /\ ~OpenOnly(page_states, NumPages)
           /\ OpenPages(page_states) # {})
       => app.current_page
             = StartedOrNone(PageName(SetMax(OpenPages(page_states))))
    /\ (OpenPages(page_states) = {} /\ ~AllClosed)
       => app.current_page = NoPage

\* pages 2 and 4 open, the others closed: page4
C9_Witness ==
    /\ OpenPages(page_states) = {2, 4}
    /\ \A i \in {1, 3, 5} : ClosedOnly(page_states, i)
    /\ app.current_page = "page4"
    /\ ticks > MaxTicks

\* readings in which every page is either open or closed
CleanReadings == {Reading(pat) : pat \in [Pages -> {"C", "O"}]}

ValidAsStated(s, d) ==
    /\ d.meta # None
    /\ d.frames # {}
    /\ d.src # None
    /\ d.meta[1].source_mtime = d.src[1].mtime
    /\ d.meta[1].width = s.target_size[1]
    /\ d.meta[1].height = s.target_size[2]
    /\ d.meta[1].fps_limit = s.fps_limit
    /\ d.meta[1].frame_count = Cardinality(d.frames)

\* the files are as the last successful ensure_cache left them
Unchanged == ops.clean /\ ops.ensured # None

\* target_size alone differs from the last successful ensure_cache
SizeAloneChanged ==
    /\ Unchanged
    /\ ops.ensured[1].limit = vs.fps_limit
    /\ ops.ensured[1].size # vs.target_size

\* target_size and fps_limit are those of the last successful ensure_cache
SameParameters ==
    /\ ops.ensured[1].limit = vs.fps_limit
    /\ ops.ensured[1].size = vs.target_size

\* C11 as stated: ensure_cache rebuilds exactly when the cache is not valid;
\* after a change of target_size alone it rebuilds, and the ensure_cache
\* after that one does not.
C11_AsStated ==
    [][ops'.op = "ensure_cache" =>
          /\ (ops'.rebuilds = 1) <=> ~ValidAsStated(vs, disk)
          /\ SizeAloneChanged => ops'.rebuilds = 1
          /\ (ops.op = "ensure_cache" /\ ops.status = "ok") => ops'.rebuilds = 0]_vars

\* C11 amended: as stated while the source file exists; when the source
\* file is missing, ensure_cache rebuilds exactly when the metadata or every
\* frame file is missing too, and otherwise raises FileNotFoundError out of
\* the validity check and leaves the files alone.
C11_RebuildsIffInvalid ==
    [][ops'.op = "ensure_cache" =>
          /\ disk.src # None
             => ((ops'.rebuilds = 1) <=> ~ValidAsStated(vs, disk))
          /\ disk.src = None
             => /\ (ops'.rebuilds = 1) <=> (disk.meta = None \/ disk.frames = {})
                /\ ops'.rebuilds = 0
                   => (ops'.status = "FileNotFoundError" /\ disk' = disk)
          /\ SizeAloneChanged => ops'.rebuilds = 1
          /\ (ops.op = "ensure_cache" /\ ops.status = "ok") => ops'.rebuilds = 0]_vars

\* ensure_cache rebuilt a cache that only the new target_size made invalid
C11_Witness ==
    /\ ops.op = "ensure_cache"
    /\ ops.status = "ok"
    /\ ops.rebuilds = 1
    /\ ops.before.clean
    /\ ops.before.ensured # None
    /\ ops.before.ensured[1].limit = vs.fps_limit
    /\ ops.before.ensured[1].size # vs.target_size

\* C12: with the files, target_size and fps_limit as the last successful
\* ensure_cache left them, ensure_cache succeeds, rebuilds nothing, leaves
\* every file alone and finds the same frame count, fps and duration.
C12_EnsureCacheIdempotent ==
    [][(ops'.op = "ensure_cache" /\ Unchanged /\ SameParameters) =>
          /\ ops'.status = "ok"
          /\ ops'.rebuilds = 0
          /\ disk' = disk
          /\ ops'.ensured = ops.ensured]_vars

\* a second ensure_cache right after one that built the cache
C12_Witness ==
    /\ ops.op = "ensure_cache"
    /\ ops.status = "ok"
    /\ ops.rebuilds = 0
    /\ ops.before.op = "ensure_cache"
    /\ ops.before.status = "ok"
    /\ ops.before.ensured = ops.ensured
    /\ ops.ensured[1].frame_count > 0

(* ------------------------------------------------------------------ *)
(* C14: _load_frame                                                   *)
(* ------------------------------------------------------------------ *)

\* C14: a call of _load_frame that entered its loop leaves it: the frame is
\* loaded or an error is raised.
C14_LoadFrameTerminates == Loading ~> ~Loading

(* ------------------------------------------------------------------ *)
(* C16 .. C19: playback                                               *)
(* ------------------------------------------------------------------ *)

\* the stream plays: reset returned, no close since, every advance returned
Playing == ops.played # None /\ ~Halted /\ ~Loading

C17_HoldsLastFrame ==
    /\ [](Playing /\ ops.played[1] >= Len(vs.frame_paths) * vs.frame_duration
          => /\ vs.finished
             /\ vs.frame_index = Len(vs.frame_paths) - 1
             /\ vs.accumulator = 0
             /\ vs.last_surface = Some(vs.frame_paths[Len(vs.frame_paths)]))
    /\ [][(Playing /\ vs.finished /\ ops'.op = "advance")
          => /\ vs' = vs
             /\ disk' = disk
             /\ ops'.status = "ok"
             /\ ops'.loads = 0
             /\ ops'.ret = vs.last_surface
             /\ ops'.ret # None]_vars

\* an advance on a stream that had finished before it
C17_Witness ==
    /\ ops.op = "advance"
    /\ Playing
    /\ ops.before.played # None
    /\ ops.before.played[1] >= Len(vs.frame_paths) * vs.frame_duration
    /\ ops.played[1] > ops.before.played[1]
    /\ vs.finished
    /\ ops.loads = 0
    /\ ops.ret = Some(vs.frame_paths[Len(vs.frame_paths)])

\* C18: reset raises, or returns with frame_index, accumulator and
\* elapsed_time 0, finished false and frame 0 in last_surface; the advance
\* right after a reset that returned returns a frame.
C18_ResetRaisesOrStarts ==
    /\ ops.op = "reset"
       => \/ ops.status \in {"FileNotFoundError", "OSError", "RuntimeError"}
          \/ /\ ops.status = "ok"
             /\ vs.frame_index = 0
             /\ vs.accumulator = 0
             /\ vs.elapsed_time = 0
             /\ ~vs.finished
             /\ vs.last_surface = Some(0)
    /\ (ops.op = "advance" /\ ops.before.op = "reset" /\ ops.before.status = "ok")
       => (ops.status = "ok" /\ ops.ret # None)

\* C19: close leaves the files, frame_paths, fps and the duration alone,
\* drops last_surface, zeroes accumulator, elapsed_time and frame_index and
\* sets finished; an advance after close returns no frame and changes
\* nothing; a reset after the close of a playing stream whose files did not
\* change rebuilds nothing and starts at frame 0.
C19_CloseKeepsCache ==
    [][/\ ops'.op = "close"
          => /\ disk' = disk
             /\ vs'.frame_paths = vs.frame_paths
             /\ vs'.fps = vs.fps
             /\ vs'.frame_duration = vs.frame_duration
             /\ Duration(vs') = Duration(vs)
             /\ vs'.last_surface = None
             /\ vs'.accumulator = 0
             /\ vs'.elapsed_time = 0
             /\ vs'.frame_index = 0
             /\ vs'.finished
       /\ (ops.op = "close" /\ ops'.op = "advance")
          => (ops'.ret = None /\ vs' = vs /\ disk' = disk /\ ops'.loads = 0)
       /\ (ops.op = "close" /\ ops.before.played # None /\ ops.clean
              /\ ops'.op = "reset")
          => /\ ops'.status = "ok"
             /\ ops'.rebuilds = 0
             /\ disk' = disk
             /\ vs'.frame_index = 0
             /\ ~vs'.finished
             /\ vs'.last_surface = Some(0)]_vars

\* a reset right after a close found the cache as it was and rebuilt nothing
C19_Witness ==
    /\ ops.op = "reset"
    /\ ops.status = "ok"
    /\ ops.rebuilds = 0
    /\ ops.before.op = "close"
    /\ ops.before.clean
    /\ vs.last_surface = Some(0)
    /\ Cardinality(disk.frames) > 1

(* ------------------------------------------------------------------ *)
(* C15                                                                *)
(* ------------------------------------------------------------------ *)

\* the readings the receiver has handed to update_states so far, and the
\* all-False one the program starts with
Published == rx.received \cup {[k \in Keys |-> FALSE]}

\* C15: with the receiver thread publishing readings while the main loop
\* evaluates them, the ten switch values evaluated in one tick are those of
\* one complete reading of the producer, never a mixture of two readings.
C15_NoTornRead == \E r \in Published : page_states = PageStates(r)

(* ------------------------------------------------------------------ *)
(* C13                                                                *)
(* ------------------------------------------------------------------ *)

\* C13: a cache failure for one page's video is never fatal, wherever it
\* occurs (the cache preparation of App.run, reset at page activation, frame
\* loading during advance): the loop of App.run keeps running, and a failure
\* sets the video_load_failure flag.
C13_CacheFailureNotFatal ==
    /\ pc \in {"start", "loop"}
    /\ app.start_error # NoPage => app.video_load_failure

(* ------------------------------------------------------------------ *)
(* C20                                                                *)
(* ------------------------------------------------------------------ *)

\* C20: every change of current_page from a to b emits exactly one
\* page-change notification carrying a and b (under their display labels) and
\* sets video_times[b] to zero; an iteration that leaves current_page
\* unchanged emits no page-change notification.
C20_OneNotificationPerChange ==
    [][ticks' = ticks + 1 =>
         IF app'.current_page = app.current_page
         THEN app'.changes = <<>>
         ELSE /\ app'.changes = << <<PageLabel(app.current_page),
                                     PageLabel(app'.current_page)>> >>
              /\ app'.current_page \in DOMAIN app'.video_times =>
                     app'.video_times[app'.current_page] = 0]_vars

(* ------------------------------------------------------------------ *)
(* C21, C22: what the invalid-state check leaves                      *)
(* ------------------------------------------------------------------ *)

\* the lowest page whose OPEN and CLOSED are both set
LowestInvalid(ps) == SetMin({i \in Pages : Invalid(ps, i)})

\* C21: after a tick in which page i is the lowest page in the invalid state,
\* suspected_faulty is [i] at the end of the tick.
C21_InvalidPageSuspected ==
    AnyInvalid => app.suspected_faulty = Some(<<LowestInvalid(page_states)>>)

\* C22: after every run of _check_invalid_state, on whatever reading, no page
\* whose OPEN and CLOSED are not both set has its signature {i} in
\* reported_faults, whether or not another page is invalid.
C22_ValidPagesPurged ==
    \A r \in FaultReadings :
        \A i \in Pages :
            ~Invalid(PageStates(r), i)
                => {i} \notin CheckInvalidState(app, PageStates(r), "ok").reported_faults

(* ------------------------------------------------------------------ *)
(* C23                                                                *)
(* ------------------------------------------------------------------ *)

\* C23: once a line was handed to the parser, the map the page selector gets
\* has all ten keys, and every field the most recent raw line does not have
\* is delivered as false.
C23_MissingFieldsFalse ==
    rx.line # <<>> =>
        /\ rx.linked => DOMAIN inputs = Keys
        /\ \A k \in 1..NumKeys : k > Len(rx.line) => ~Get(inputs, KeyAt(k))

(* ------------------------------------------------------------------ *)
(* C24                                                                *)
(* ------------------------------------------------------------------ *)

\* C24: current_page is always None or one of front_cover, page1, page2,
\* page3, page4, back_cover; no reading makes it page5.
C24_PageInRange ==
    /\ app.current_page \in {NoPage} \cup VIDEO_SOURCES
    /\ app.current_page # PageName(NumPages)

\* page 5 is open above closed pages 1 to 4, and the back cover is shown
C24_Witness ==
    /\ ticks > 0
    /\ OpenPages(page_states) = {NumPages}
    /\ \A i \in 1..(NumPages - 1) : ClosedOnly(page_states, i)
    /\ app.current_page = "back_cover"

(* ------------------------------------------------------------------ *)
(* C25                                                                *)
(* ------------------------------------------------------------------ *)

\* the streams of the pages that are not the current page
OtherStreams == {app.streams[p] : p \in VIDEO_SOURCES \ {app.current_page}}

\* C25 as stated: at the end of every tick every stream other than the one
\* of current_page is closed: finished, no frame loaded, frame_index and
\* accumulator 0.
C25_AsStated ==
    \A stream \in OtherStreams :
        /\ stream.finished
        /\ stream.last_surface = None
        /\ stream.frame_index = 0
        /\ stream.accumulator = 0

\* C25 amended: at the end of every tick every stream other than the one of
\* current_page holds no frame and has frame_index and accumulator 0; it is
\* finished too unless a reset of it raised, which set video_load_failure.
C25_OthersHoldNoFrame ==
    \A stream \in OtherStreams :
        /\ stream.last_surface = None
        /\ stream.frame_index = 0
        /\ stream.accumulator = 0
        /\ ~stream.finished => app.video_load_failure

\* the book went from the front cover to the back cover in one tick: the
\* stream of the front cover, started a tick before, is closed
C25_Witness ==
    /\ ticks > 1
    /\ app.changes = << <<PageLabel("front_cover"), PageLabel("back_cover")>> >>
    /\ app.current_page = "back_cover"
    /\ app.streams["back_cover"] = StartedStream
    /\ app.streams["front_cover"] = ClosedStream

(* ------------------------------------------------------------------ *)
(* C26                                                                *)
(* ------------------------------------------------------------------ *)

\* C26: when current_page is p at the start of a tick and p again at its
\* end, _handle_input leaves the stream of p as it was: frame_index,
\* accumulator, finished and the loaded frame are unchanged.
C26_SamePageKeepsPlaying ==
    [][(ticks' = ticks + 1 /\ app.current_page # NoPage
            /\ app'.current_page = app.current_page)
        => app'.streams[app.current_page] = app.streams[app.current_page]]_vars

(* ------------------------------------------------------------------ *)
(* C27                                                                *)
(* ------------------------------------------------------------------ *)

\* the timer and the set it times are as they were before the tick
TimerKept ==
    /\ app'.floating_start_time = app.floating_start_time
    /\ app'.floating_pages = app.floating_pages

\* the timer was started in this tick, for the floating set of its reading
TimerRestarted ==
    /\ app'.floating_start_time = Some(now')
    /\ app'.floating_pages = Some(FloatingNow(page_states'))

\* the floating set of this tick is the one of the tick before it
SameFloatingSet ==
    /\ ticks > 0
    /\ FloatingNow(page_states') = FloatingNow(page_states)

\* C27 as stated: on a tick whose non-empty floating set is that of the
\* previous tick the timer and its set keep their values, whatever the other
\* pages read; on a tick with another floating set, or with no timer
\* running, floating_start_time is set to the current time.
C27_AsStated ==
    [][(ticks' = ticks + 1 /\ FloatingNow(page_states') # {})
        => IF SameFloatingSet THEN TimerKept ELSE TimerRestarted]_vars

\* C27 amended: the timer and its set keep their values on a tick whose
\* non-empty floating set is that of the previous tick and in whose reading
\* no page is invalid; with an invalid page in the reading, with another
\* floating set, or with no timer running, floating_start_time is set to the
\* current time.
C27_TimerRestartsOnChange ==
    [][(ticks' = ticks + 1 /\ FloatingNow(page_states') # {})
        => IF SameFloatingSet /\ ~AnyInvalid' THEN TimerKept ELSE TimerRestarted]_vars

\* pages 1 and 2 float as in the tick before, the other pages read something
\* else than before, and the timer still runs from that earlier tick
C27_Witness ==
    /\ ticks > 1
    /\ FloatingNow(page_states) = {1, 2}
    /\ ~AnyInvalid
    /\ OpenOnly(page_states, 3)
    /\ app.floating_pages = Some({1, 2})
    /\ app.floating_start_time # None
    /\ app.floating_start_time # Some(now)

(* ------------------------------------------------------------------ *)
(* C28                                                                *)
(* ------------------------------------------------------------------ *)

\* _rebuild_cache emptied the cache directory and has not written the
\* metadata: it is saving frames, or it raised or was stopped before the end
PartlyWritten == ops.op = "_rebuild_cache"

\* _cache_is_valid of a stream made for a screen of `size` with `limit`
AcceptedBy(size, limit) ==
    CacheIsValid(RefreshFramePaths(NewStream(size, limit), disk), disk,
                 ReadMetadata(disk))

\* C28: from the removal of the old cache directory until every frame is
\* saved the metadata file is absent, so a partly written cache, also one
\* left by a rebuild that failed or was stopped, is rejected by the validity
\* check of every stream, and the next ensure_cache rebuilds it.
C28_PartialCacheRejected ==
    /\ [](PartlyWritten
             => /\ ReadMetadata(disk) = None
                /\ \A size \in TargetSizes, limit \in FpsLimits :
                       ~AcceptedBy(size, limit))
    /\ [][(/\ ops'.op = "ensure_cache"
           /\ \/ PartlyWritten
              \/ ops.op = "restart" /\ ops.before.op = "_rebuild_cache")
          => ops'.rebuilds = 1]_vars

\* a rebuild was stopped with some of the frames saved
C28_Witness ==
    /\ ops.op = "_rebuild_cache"
    /\ ops.status = "interrupted"
    /\ disk.frames # {}
    /\ Cardinality(disk.frames) < FramesToSave
    /\ disk.meta = None

====
